---- MODULE Spec2Model ----
(***************************************************************************)
(* A model of util/vectorrep.cc: VectorRep, the vector-backed memtable     *)
(* representation, and VectorRep::Iterator with its lazy sort.             *)
(*                                                                         *)
(* The model is of the checked build: assert() is evaluated, and a         *)
(* failing assert aborts the process (aborted = TRUE, after which no       *)
(* thread takes a step).  Every thread may call every Store operation and  *)
(* owns at most one iterator, which only that thread uses.  A step is one  *)
(* lock acquisition, one critical section (ending with the release of the  *)
(* scoped lock), or the lock-free remainder of an iterator call.           *)
(***************************************************************************)
EXTENDS Integers, Sequences, FiniteSets

\* ------------------------------------------------------------------ bounds
\* Spec: NumThreads threads, references 1..MaxRef, at most MaxLen entries.
NumThreads == 2
MaxRef == 3
MaxLen == 2
\* SpecSeq: one thread, references 1..SeqMaxRef, at most SeqMaxLen entries.
SeqMaxRef == 4
SeqMaxLen == 3

\* SpecLive: NumThreads threads, references 1..LiveMaxRef, at most LiveMaxLen
\* entries.
LiveMaxRef == 1
LiveMaxLen == 1

Threads == 1..NumThreads
\* The entry references (const char*) the callers pass in.
Refs == 1..MaxRef
SeqRefs == 1..SeqMaxRef

\* ----------------------------------------------------------- the comparator
\* The user key an entry reference encodes.  References 1 and 2 encode the
\* same key: two distinct references may compare equal.
KeyOf(r) == IF r = 2 THEN 1 ELSE r

\* KeyComparator::operator(): negative, zero or positive.
compare_(a, b) == KeyOf(a) - KeyOf(b)

\* stl_wrappers::Compare, and the lambda of Seek: "a orders before b".
Less(a, b) == compare_(a, b) < 0

\* ------------------------------------------------------------------- state
VARIABLES
  bucket_,     \* VectorRep::bucket_: the sequence of entry references
  allocated,   \* bucket_ has storage (its data pointer is not null)
  immutable_,  \* VectorRep::immutable_
  sorted_,     \* VectorRep::sorted_
  writer,      \* rwlock_: the thread holding it exclusively, or 0
  readers,     \* rwlock_: the threads holding it shared
  pc,          \* each thread's position in its current call
  call,        \* each thread's current call [op, arg]; after the return, the
               \* call it was (with the target of a Seek)
  ret,         \* each thread's last return value (1/0 for true/false)
  it,          \* each thread's iterator
  aborted,     \* an assert has failed (or a null iterator was dereferenced)
  inserted,    \* history: the references appended, in order of push_back
  sortCount    \* history: how many times std::sort ran on the shared bucket_

vars == <<bucket_, allocated, immutable_, sorted_, writer, readers, pc, call,
          ret, it, aborted, inserted, sortCount>>

store == <<bucket_, allocated, immutable_, sorted_, inserted, sortCount>>
lock == <<writer, readers>>

\* cit_(nullptr): the iterator points at no element of any bucket.
NullCit == -1

\* No iterator yet.
NoIter == [live |-> FALSE, vrep_ |-> FALSE, bucket_ |-> <<>>,
           cit_ |-> NullCit, sorted_ |-> FALSE]

\* VectorRep::Iterator::Iterator: vrep_ is set (shared mode) or null, bucket_
\* is the Store's vector (shared mode, read through the Store) or the copy.
NewIterator(vrep, bkt) ==
  [live |-> TRUE, vrep_ |-> vrep, bucket_ |-> bkt,
   cit_ |-> NullCit, sorted_ |-> FALSE]

NoCall == [op |-> "none", arg |-> 0]

StoreOps == {"Insert", "Contains", "MarkReadOnly", "GetIterator"}
IterOps == {"Valid", "key", "Next", "Prev", "Seek", "SeekToFirst", "SeekToLast"}
KeyedOps == {"Insert", "Contains", "Seek"}

Init ==
  /\ bucket_ = <<>>
  /\ allocated \in BOOLEAN      \* reserve(count): count > 0 or count = 0
  /\ immutable_ = FALSE
  /\ sorted_ = FALSE
  /\ writer = 0
  /\ readers = {}
  /\ pc = [t \in Threads |-> "idle"]
  /\ call = [t \in Threads |-> NoCall]
  /\ ret = [t \in Threads |-> 0]
  /\ it = [t \in Threads |-> NoIter]
  /\ aborted = FALSE
  /\ inserted = <<>>
  /\ sortCount = 0

\* ---------------------------------------------------------------- helpers
Range(s) == {s[i] : i \in 1..Len(s)}

\* The vector an iterator's bucket_ points to.
Bkt(i) == IF i.vrep_ THEN bucket_ ELSE i.bucket_

\* Whether that vector has storage: a copy of an empty vector has none.
Alloc(i) == IF i.vrep_ THEN allocated ELSE Len(i.bucket_) > 0

\* cit_ == bucket_->end() and cit_ == bucket_->begin().  Positions are
\* offsets from begin(); a vector without storage has begin() = end() = null.
AtEnd(i) == IF i.cit_ = NullCit THEN ~Alloc(i) ELSE i.cit_ = Len(Bkt(i))
AtBegin(i) == IF i.cit_ = NullCit THEN ~Alloc(i) ELSE i.cit_ = 0

IsSorted(s) == \A a, b \in 1..Len(s) : a < b => ~Less(s[b], s[a])

Perms(n) == {f \in [1..n -> 1..n] : \A a, b \in 1..n : a # b => f[a] # f[b]}

\* Mutant of SortResults: the comparator's arguments swapped.
SortResultsSwapped(s) ==
  {p \in {[k \in 1..Len(s) |-> s[f[k]]] : f \in Perms(Len(s))} :
     \A a, b \in 1..Len(p) : a < b => ~Less(p[a], p[b])}

\* std::sort(begin, end, Compare(compare_)): some ordered rearrangement; the
\* order of entries that compare equal is not determined.
SortResults(s) ==
  {p \in {[k \in 1..Len(s) |-> s[f[k]]] : f \in Perms(Len(s))} : IsSorted(p)}

\* Mutant of LowerBound: equal_range(...).second, the first position whose
\* entry orders after target.
RECURSIVE UpperBound(_, _, _, _)
UpperBound(s, target, lo, hi) ==
  IF lo >= hi THEN lo
  ELSE LET mid == lo + ((hi - lo) \div 2)
       IN IF ~Less(target, s[mid + 1])
          THEN UpperBound(s, target, mid + 1, hi)
          ELSE UpperBound(s, target, lo, mid)

\* std::equal_range(...).first: the binary search for the first position
\* whose entry does not order before target, on offsets [lo, hi).
RECURSIVE LowerBound(_, _, _, _)
LowerBound(s, target, lo, hi) ==
  IF lo >= hi THEN lo
  ELSE LET mid == lo + ((hi - lo) \div 2)
       IN IF Less(s[mid + 1], target)
          THEN LowerBound(s, target, mid + 1, hi)
          ELSE LowerBound(s, target, lo, mid)

\* A failing assert (or the dereference of a null cit_) ends the process.
Abort == /\ aborted' = TRUE
         /\ UNCHANGED <<store, lock, pc, ret, it>>

Return(t, v) == /\ pc' = [pc EXCEPT ![t] = "idle"]
                /\ ret' = [ret EXCEPT ![t] = v]

\* A Store call has returned.
Returned(t) == call' = [call EXCEPT ![t].arg = 0]

\* ------------------------------------------------------------ Store calls
\* Inserts in flight: they bound the length bucket_ can reach.
Inserting == {u \in Threads : pc[u] # "idle" /\ call[u].op = "Insert"}

\* A thread starts a Store call and takes the call's first lock: the
\* ReadLock of Contains (also as called by Insert, line 99) and of
\* GetIterator, the WriteLock of MarkReadOnly.
Call(t, ops, refs, cap) ==
  /\ ~aborted
  /\ pc[t] = "idle"
  /\ writer = 0
  /\ \E op \in StoreOps \cap ops, k \in refs \cup {0} :
       /\ (op \in KeyedOps) <=> (k # 0)
       /\ op = "Insert" => Len(bucket_) + Cardinality(Inserting) < cap
       /\ call' = [call EXCEPT ![t] = [op |-> op, arg |-> k]]
       /\ IF op = "MarkReadOnly"
          THEN /\ readers = {}
               /\ writer' = t
               /\ pc' = [pc EXCEPT ![t] = "MarkReadOnlyBody"]
               /\ UNCHANGED readers
          ELSE /\ readers' = readers \cup {t}
               /\ pc' = [pc EXCEPT ![t] = IF op = "GetIterator"
                                          THEN "GetIteratorBody"
                                          ELSE "ContainsScan"]
               /\ UNCHANGED writer
  /\ ret' = [ret EXCEPT ![t] = 0]
  /\ UNCHANGED <<store, it, aborted>>

\* Mutant of Contains: called by Insert, the ReadLock is still held when
\* Insert goes on to its WriteLock.
ContainsKeepsLock(t) ==
  /\ ~aborted
  /\ pc[t] = "ContainsScan"
  /\ LET found == call[t].arg \in Range(bucket_)
     IN IF call[t].op = "Insert"
        THEN IF found
             THEN Abort /\ UNCHANGED call
             ELSE /\ pc' = [pc EXCEPT ![t] = "Insert"]
                  /\ UNCHANGED <<store, lock, call, ret, it, aborted>>
        ELSE /\ Return(t, IF found THEN 1 ELSE 0)
             /\ Returned(t)
             /\ readers' = readers \ {t}
             /\ UNCHANGED <<store, writer, it, aborted>>

\* VectorRep::Contains: std::find by reference identity, then the unlock.
\* Called by Insert, assert(!Contains(key)) decides whether Insert goes on.
Contains(t) ==
  /\ ~aborted
  /\ pc[t] = "ContainsScan"
  /\ LET found == call[t].arg \in Range(bucket_)
     IN IF call[t].op = "Insert"
        THEN IF found
             THEN Abort /\ UNCHANGED call
             ELSE /\ pc' = [pc EXCEPT ![t] = "Insert"]
                  /\ readers' = readers \ {t}
                  /\ UNCHANGED <<store, writer, call, ret, it, aborted>>
        ELSE /\ Return(t, IF found THEN 1 ELSE 0)
             /\ Returned(t)
             /\ readers' = readers \ {t}
             /\ UNCHANGED <<store, writer, it, aborted>>

\* Mutant of WriteLock: the lock is taken without waiting for the readers to
\* leave.
WriteLockIgnoringReaders(t) ==
  /\ ~aborted
  /\ pc[t] = "Insert"
  /\ writer = 0
  /\ writer' = t
  /\ pc' = [pc EXCEPT ![t] = "InsertBody"]
  /\ UNCHANGED <<store, readers, call, ret, it, aborted>>

\* WriteLock l(&rwlock_) in Insert, line 100.
WriteLock(t) ==
  /\ ~aborted
  /\ pc[t] = "Insert"
  /\ writer = 0
  /\ readers = {}
  /\ writer' = t
  /\ pc' = [pc EXCEPT ![t] = "InsertBody"]
  /\ UNCHANGED <<store, readers, call, ret, it, aborted>>

\* Mutant of Insert: no assert(!immutable_).
InsertNoAssert(t) ==
  /\ ~aborted
  /\ pc[t] = "InsertBody"
  /\ bucket_' = Append(bucket_, call[t].arg)
  /\ inserted' = Append(inserted, call[t].arg)
  /\ allocated' = TRUE
  /\ writer' = 0
  /\ Return(t, 0)
  /\ Returned(t)
  /\ UNCHANGED <<immutable_, sorted_, sortCount, readers, it, aborted>>

\* VectorRep::Insert under the WriteLock: the assert and the push_back.
Insert(t) ==
  /\ ~aborted
  /\ pc[t] = "InsertBody"
  /\ IF immutable_
     THEN Abort /\ UNCHANGED call
     ELSE /\ bucket_' = Append(bucket_, call[t].arg)
          /\ inserted' = Append(inserted, call[t].arg)
          /\ allocated' = TRUE
          /\ writer' = 0
          /\ Return(t, 0)
          /\ Returned(t)
          /\ UNCHANGED <<immutable_, sorted_, sortCount, readers, it, aborted>>

\* Mutant of MarkReadOnly: the flag is flipped, not set.
MarkReadOnlyToggle(t) ==
  /\ ~aborted
  /\ pc[t] = "MarkReadOnlyBody"
  /\ immutable_' = ~immutable_
  /\ writer' = 0
  /\ Return(t, 0)
  /\ Returned(t)
  /\ UNCHANGED <<bucket_, allocated, sorted_, inserted, sortCount, readers,
                 it, aborted>>

\* VectorRep::MarkReadOnly under the WriteLock.
MarkReadOnly(t) ==
  /\ ~aborted
  /\ pc[t] = "MarkReadOnlyBody"
  /\ immutable_' = TRUE
  /\ writer' = 0
  /\ Return(t, 0)
  /\ Returned(t)
  /\ UNCHANGED <<bucket_, allocated, sorted_, inserted, sortCount, readers,
                 it, aborted>>

\* Mutant of GetIterator: no copy, the Store's vector is handed out while
\* the Store is still mutable.
GetIteratorNoCopy(t) ==
  /\ ~aborted
  /\ pc[t] = "GetIteratorBody"
  /\ it' = [it EXCEPT ![t] = NewIterator(TRUE, <<>>)]
  /\ readers' = readers \ {t}
  /\ Return(t, 0)
  /\ Returned(t)
  /\ UNCHANGED <<store, writer, aborted>>

\* Mutant of GetIterator: no test of immutable_, every iterator gets a copy.
GetIteratorAlwaysCopy(t) ==
  /\ ~aborted
  /\ pc[t] = "GetIteratorBody"
  /\ it' = [it EXCEPT ![t] = NewIterator(FALSE, bucket_)]
  /\ readers' = readers \ {t}
  /\ Return(t, 0)
  /\ Returned(t)
  /\ UNCHANGED <<store, writer, aborted>>

\* VectorRep::GetIterator under the ReadLock.
GetIterator(t) ==
  /\ ~aborted
  /\ pc[t] = "GetIteratorBody"
  /\ it' = [it EXCEPT ![t] = IF immutable_ THEN NewIterator(TRUE, <<>>)
                             ELSE NewIterator(FALSE, bucket_)]
  /\ readers' = readers \ {t}
  /\ Return(t, 0)
  /\ Returned(t)
  /\ UNCHANGED <<store, writer, aborted>>

\* The sizes in ApproximateMemoryUsage, in bytes on an LP64 build:
\* sizeof(bucket_), a shared_ptr; sizeof(*bucket_), a vector; and the size of
\* the vector's value_type, a const char*.
SizeofSharedPtr == 16
SizeofBucket == 24
SizeofValueType == 8

\* Mutant of MemoryUsage: the multiplication by the size of value_type is
\* left out.
MemoryUsageNoScale(b) == SizeofSharedPtr + SizeofBucket + Len(b)

\* The value ApproximateMemoryUsage computes when bucket_ is b, lines 117-122.
MemoryUsage(b) == SizeofSharedPtr + SizeofBucket + Len(b) * SizeofValueType

\* VectorRep::ApproximateMemoryUsage: it takes no lock, the whole call is
\* one read of bucket_->size().  A thread calls it while no other call on
\* the Store is in progress.
ApproximateMemoryUsage(t) ==
  /\ ~aborted
  /\ \A u \in Threads : pc[u] = "idle"
  /\ call' = [call EXCEPT ![t] = [op |-> "ApproximateMemoryUsage", arg |-> 0]]
  /\ ret' = [ret EXCEPT ![t] = MemoryUsage(bucket_)]
  /\ UNCHANGED <<store, lock, pc, it, aborted>>

\* ------------------------------------------------------- iterator calls
\* Line 142: this iterator has not sorted and is in shared mode.
NeedsSharedSort(i) == ~i.sorted_ /\ i.vrep_

\* Mutant of DoSortShared: no test of the Store's sorted_ flag, every
\* iterator's first call sorts.
DoSortSharedNoCheck(t) ==
  /\ ~aborted
  /\ pc[t] = "DoSortBody"
  /\ \E p \in SortResults(bucket_) :
       /\ bucket_' = p
       /\ sorted_' = TRUE
       /\ sortCount' = sortCount + 1
       /\ it' = [it EXCEPT ![t].cit_ = 0, ![t].sorted_ = TRUE]
  /\ writer' = 0
  /\ pc' = [pc EXCEPT ![t] = "Body"]
  /\ UNCHANGED <<allocated, immutable_, inserted, readers, call, ret, aborted>>

\* Mutant of DoSortShared: the flags are set, the sort is left out.
DoSortSharedNoSort(t) ==
  /\ ~aborted
  /\ pc[t] = "DoSortBody"
  /\ sorted_' = TRUE
  /\ it' = [it EXCEPT ![t].cit_ = IF sorted_ THEN @ ELSE 0, ![t].sorted_ = TRUE]
  /\ writer' = 0
  /\ pc' = [pc EXCEPT ![t] = "Body"]
  /\ UNCHANGED <<bucket_, sortCount, allocated, immutable_, inserted, readers,
                 call, ret, aborted>>

\* Mutant of DoSortShared: the sort is done, the Store's flag is not set.
DoSortSharedNoFlag(t) ==
  /\ ~aborted
  /\ pc[t] = "DoSortBody"
  /\ \E p \in SortResults(bucket_) :
       /\ bucket_' = p
       /\ sortCount' = sortCount + 1
       /\ it' = [it EXCEPT ![t].cit_ = 0, ![t].sorted_ = TRUE]
  /\ writer' = 0
  /\ pc' = [pc EXCEPT ![t] = "Body"]
  /\ UNCHANGED <<sorted_, allocated, immutable_, inserted, readers, call, ret,
                 aborted>>

\* DoSort, lines 143-150, under the WriteLock: the one sort of the shared
\* bucket_, then this iterator's own flag, then the unlock.
DoSortShared(t) ==
  /\ ~aborted
  /\ pc[t] = "DoSortBody"
  /\ IF ~sorted_
     THEN \E p \in SortResults(bucket_) :
            /\ bucket_' = p
            /\ sorted_' = TRUE
            /\ sortCount' = sortCount + 1
            /\ it' = [it EXCEPT ![t].cit_ = 0, ![t].sorted_ = TRUE]
     ELSE /\ it' = [it EXCEPT ![t].sorted_ = TRUE]
          /\ UNCHANGED <<bucket_, sorted_, sortCount>>
  /\ writer' = 0
  /\ pc' = [pc EXCEPT ![t] = "Body"]
  /\ UNCHANGED <<allocated, immutable_, inserted, readers, call, ret, aborted>>

\* DoSort, lines 151-155: the sort when sorted_ is still false, of the vector
\* this iterator's bucket_ points to, without any lock.  The results are the
\* pairs <<iterator, that vector>> after it.
LocalSort(i) ==
  IF i.sorted_
  THEN {<<i, Bkt(i)>>}
  ELSE {<<[i EXCEPT !.bucket_ = IF i.vrep_ THEN <<>> ELSE p,
                    !.cit_ = 0, !.sorted_ = TRUE], p>> :
          p \in SortResults(Bkt(i))}

\* The asserts that end DoSort, lines 156-157.
DoSortAsserts(i) == i.sorted_ /\ (~i.vrep_ \/ sorted_)

\* Valid(): cit_ != bucket_->end().
ValidCit(i) == ~AtEnd(i)

\* key(): *cit_.
KeyAt(i, b) == b[i.cit_ + 1]

\* The position each call leaves cit_ at, on the sorted vector b.  A cit_
\* that points at no element stays one when moved.
NextCit(i, b) == IF i.cit_ = NullCit THEN NullCit ELSE i.cit_ + 1
\* Mutant of PrevCit: going back from the first entry wraps to the last one.
PrevCitWrap(i, b) ==
  IF AtBegin(i) THEN Len(b) - 1
  ELSE IF i.cit_ = NullCit THEN NullCit ELSE i.cit_ - 1

PrevCit(i, b) ==
  IF AtBegin(i) THEN Len(b)
  ELSE IF i.cit_ = NullCit THEN NullCit ELSE i.cit_ - 1
SeekCit(i, b, target) == LowerBound(b, target, 0, Len(b))
SeekToFirstCit(i, b) == 0
\* Mutant of SeekToLastCit: the decrement is left out.
SeekToLastCitAtEnd(i, b) == Len(b)

\* Mutant of SeekToLastCit: no test of the size before the decrement.
SeekToLastCitNoTest(i, b) == Len(b) - 1

SeekToLastCit(i, b) == IF Len(b) # 0 THEN Len(b) - 1 ELSE Len(b)

\* Mutant of StoreBucketAfter: a private-mode iterator's bucket_ is the
\* Store's vector, not a copy.
StoreBucketAfterAliased(i, b) == b

\* The Store's vector once iterator i's call has left b in the vector that
\* i's bucket_ points to: the Store's own in shared mode, the copy of line
\* 234 in private mode.
StoreBucketAfter(i, b) == IF i.vrep_ THEN b ELSE bucket_

\* An iterator call from the unlocked part of DoSort on: the local sort, the
\* asserts, and the call's own lines.
Finish(t, op, arg) ==
  \E r \in LocalSort(it[t]) :
    LET i == r[1]
        b == r[2]
        Done(c, v) ==
          /\ it' = [it EXCEPT ![t] = [i EXCEPT !.cit_ = c]]
          /\ bucket_' = StoreBucketAfter(i, b)
          /\ Return(t, v)
          /\ UNCHANGED <<allocated, immutable_, sorted_, inserted, sortCount,
                         lock, aborted>>
    IN IF ~DoSortAsserts(i) THEN Abort
       ELSE IF op = "Valid"
       THEN Done(i.cit_, IF ValidCit(i) THEN 1 ELSE 0)
       ELSE IF op = "key"
       THEN IF ~ValidCit(i) \/ i.cit_ = NullCit
            THEN Abort
            ELSE Done(i.cit_, KeyAt(i, b))
       ELSE IF op = "Next"
       THEN IF ~ValidCit(i) THEN Abort ELSE Done(NextCit(i, b), 0)
       ELSE IF op = "Prev"
       THEN IF ~ValidCit(i) THEN Abort ELSE Done(PrevCit(i, b), 0)
       ELSE IF op = "Seek"
       THEN Done(SeekCit(i, b, arg), 0)
       ELSE IF op = "SeekToFirst"
       THEN Done(SeekToFirstCit(i, b), 0)
       ELSE Done(SeekToLastCit(i, b), 0)

\* "REQUIRES: Valid()" of key, Next and Prev (lines 59, 63, 67): the callers
\* keep it, they call these on an iterator they have seen valid.
Requires(op, i) ==
  op \in {"key", "Next", "Prev"} => (i.sorted_ /\ ValidCit(i))

\* A thread calls its iterator.  Every call starts with DoSort (Valid, Seek,
\* SeekToFirst and SeekToLast directly; key, Next and Prev through
\* assert(Valid())).  A private-mode iterator touches nothing shared: its
\* call is one step.  A shared-mode iterator that has not sorted yet takes
\* the Store's WriteLock (line 143); one that has goes on to its reads of the
\* shared bucket_.
IterCall(t, ops, refs) ==
  /\ ~aborted
  /\ pc[t] = "idle"
  /\ it[t].live
  /\ \E op \in IterOps \cap ops, k \in refs \cup {0} :
       /\ (op \in KeyedOps) <=> (k # 0)
       /\ Requires(op, it[t])
       /\ call' = [call EXCEPT ![t] = [op |-> op, arg |-> k]]
       /\ IF NeedsSharedSort(it[t])
          THEN /\ writer = 0
               /\ readers = {}
               /\ writer' = t
               /\ pc' = [pc EXCEPT ![t] = "DoSortBody"]
               /\ ret' = [ret EXCEPT ![t] = 0]
               /\ UNCHANGED <<store, readers, it, aborted>>
          ELSE IF it[t].vrep_
          THEN /\ pc' = [pc EXCEPT ![t] = "Body"]
               /\ ret' = [ret EXCEPT ![t] = 0]
               /\ UNCHANGED <<store, lock, it, aborted>>
          ELSE Finish(t, op, k)

\* The rest of a shared-mode iterator's call.
Body(t) ==
  /\ ~aborted
  /\ pc[t] = "Body"
  /\ UNCHANGED call
  /\ Finish(t, call[t].op, call[t].arg)

\* ----------------------------------------------------------- specification
Step(t, ops, refs, cap) ==
  \/ Call(t, ops, refs, cap)
  \/ Contains(t)
  \/ WriteLock(t)
  \/ Insert(t)
  \/ MarkReadOnly(t)
  \/ GetIterator(t)
  \/ IterCall(t, ops, refs)
  \/ DoSortShared(t)
  \/ Body(t)

\* Two threads.  Contains runs as the duplicate check of Insert; called on its
\* own it only reads under the ReadLock, as GetIterator does.
SpecOps == (StoreOps \cup IterOps) \ {"Contains"}

Next == \E t \in Threads : Step(t, SpecOps, Refs, MaxLen)

Spec == Init /\ [][Next]_vars

\* One thread, every call, more entries.
SeqOps == StoreOps \cup IterOps

NextSeq ==
  \/ Step(1, SeqOps, SeqRefs, SeqMaxLen)
  \/ ApproximateMemoryUsage(1)

SpecSeq == Init /\ [][NextSeq]_vars

\* The steps of a thread that is inside a call.  The scheduler is fair to
\* every thread: a thread whose next step stays possible takes it.  Whether
\* and when a thread makes its next call is the caller's choice.
Progress(t) ==
  \/ Contains(t)
  \/ WriteLock(t)
  \/ Insert(t)
  \/ MarkReadOnly(t)
  \/ GetIterator(t)
  \/ DoSortShared(t)
  \/ Body(t)

\* Two threads under a fair scheduler, every Store call, the iterator calls
\* that need no valid position.
LiveOps == StoreOps \cup {"Valid", "Seek"}

NextLive == \E t \in Threads : Step(t, LiveOps, 1..LiveMaxRef, LiveMaxLen)

SpecLive ==
  /\ Init
  /\ [][NextLive]_vars
  /\ \A t \in Threads : WF_vars(Progress(t))

\* ------------------------------------------------------------- properties
\* What SeekToFirst followed by key and Next, repeated while Valid, yields
\* on iterator i: at most fuel entries.
RECURSIVE ScanFrom(_, _, _)
ScanFrom(i, b, fuel) ==
  IF fuel = 0 \/ ~ValidCit(i) THEN <<>>
  ELSE <<KeyAt(i, b)>> \o ScanFrom([i EXCEPT !.cit_ = NextCit(i, b)], b, fuel - 1)

ForwardScan(i) ==
  LET b == Bkt(i)
  IN ScanFrom([i EXCEPT !.cit_ = SeekToFirstCit(i, b)], b, Len(b) + 1)

DistinctKeys(s) ==
  \A a, b \in 1..Len(s) : a # b => compare_(s[a], s[b]) # 0

Count(s, r) == Cardinality({k \in 1..Len(s) : s[k] = r})

\* The same references, each as often.
SameEntries(a, b) ==
  /\ Len(a) = Len(b)
  /\ \A r \in Range(a) \cup Range(b) : Count(a, r) = Count(b, r)

Ascending(s) == \A a, b \in 1..Len(s) : a < b => Less(s[a], s[b])

\* Thread t has returned from a call of op on its iterator.
Returned_(t, ops) == pc[t] = "idle" /\ it[t].live /\ call[t].op \in ops

\* C1: after inserts of entries pairwise distinct under the comparator and
\* MarkReadOnly, the forward scan of a shared-mode iterator (SeekToFirst, then
\* key and Next while Valid) yields exactly the inserted entries, each once,
\* in strictly ascending comparator order; and a key() that has returned
\* returned the entry of that order at the cursor.
C1_ForwardScanIsSortedInserts ==
  \A t \in Threads :
    LET i == it[t]
        y == ForwardScan(i)
    IN (i.live /\ i.vrep_ /\ i.sorted_ /\ DistinctKeys(inserted)) =>
         /\ SameEntries(y, inserted)
         /\ Ascending(y)
         /\ Returned_(t, {"key"}) => ret[t] = y[i.cit_ + 1]

C1_Witness ==
  \E t \in Threads :
    /\ it[t].vrep_ /\ it[t].sorted_ /\ DistinctKeys(inserted)
    /\ Len(inserted) >= 3
    /\ inserted # bucket_
    /\ Returned_(t, {"Next"})
    /\ ~ValidCit(it[t])

OrderOps == {"Valid", "Seek", "SeekToFirst", "SeekToLast"}

\* C2: the shared bucket_ is sorted at most once however many shared-mode
\* iterators make their first order-dependent call, and each of them has its
\* own sorted_ flag set once past DoSort's locked part and when it returns.
C2_SharedSortAtMostOnce ==
  /\ sortCount <= 1
  /\ \A t \in Threads :
       (it[t].live /\ it[t].vrep_ /\ call[t].op \in OrderOps
          /\ pc[t] \in {"Body", "idle"}) => (it[t].sorted_ /\ sorted_)

C2_Witness ==
  /\ sortCount = 1
  /\ Len(bucket_) >= 2
  /\ \A t \in Threads : Returned_(t, OrderOps) /\ it[t].vrep_ /\ it[t].sorted_

\* Thread t's GetIterator returns in this step.
GetIteratorStep(t) == pc[t] = "GetIteratorBody" /\ pc'[t] = "idle"

\* C3: an iterator obtained while the Store is mutable holds the entries the
\* Store had at that moment, and no step of any thread (Insert, MarkReadOnly,
\* another iterator's sort) changes them afterwards: its own sort reorders
\* them once, and from then on its forward scan is that fixed sequence.
C3_PrivateIteratorIsolated ==
  [][\A t \in Threads :
       /\ (GetIteratorStep(t) /\ ~immutable_) =>
            it'[t] = NewIterator(FALSE, bucket_)
       /\ (it[t].live /\ ~it[t].vrep_ /\ ~GetIteratorStep(t)) =>
            /\ it'[t].live /\ ~it'[t].vrep_
            /\ SameEntries(it[t].bucket_, it'[t].bucket_)
            /\ it[t].sorted_ =>
                 /\ it'[t].sorted_
                 /\ it'[t].bucket_ = it[t].bucket_
                 /\ IsSorted(it[t].bucket_)
                 /\ ForwardScan(it[t]) = it[t].bucket_]_vars

C3_Witness ==
  \E t \in Threads :
    /\ it[t].live /\ ~it[t].vrep_ /\ it[t].sorted_
    /\ Len(it[t].bucket_) >= 1
    /\ Len(it[t].bucket_) < Len(bucket_)
    /\ immutable_
    /\ Returned_(t, {"key"})

\* C4: once Seek(target) has returned, the cursor is at the first entry of the
\* ordered backing sequence that does not order before target, and the
\* iterator is valid iff there is such an entry.
C4_SeekIsLowerBound ==
  \A t \in Threads :
    Returned_(t, {"Seek"}) =>
      LET i == it[t]
          b == Bkt(i)
          c == i.cit_
          target == call[t].arg
      IN /\ IsSorted(b)
         /\ c \in 0..Len(b)
         /\ \A j \in 1..c : Less(b[j], target)
         /\ c < Len(b) => ~Less(b[c + 1], target)
         /\ ValidCit(i) <=> \E j \in 1..Len(b) : ~Less(b[j], target)

C4_Witness ==
  \E t \in Threads :
    /\ Returned_(t, {"Seek"})
    /\ it[t].vrep_
    /\ Len(bucket_) >= 3
    /\ inserted # bucket_
    /\ it[t].cit_ > 0 /\ it[t].cit_ < Len(bucket_)

\* C5: the order a shared-mode iterator has seen is the order every
\* shared-mode iterator sees from then on, whichever of them sorted.
C5_SameOrderForAllSharedIterators ==
  [][\A t, u \in Threads :
       (it[t].live /\ it[t].vrep_ /\ it[t].sorted_
          /\ it'[u].live /\ it'[u].vrep_ /\ it'[u].sorted_) =>
         (ForwardScan(it[u]))' = ForwardScan(it[t])]_vars

C5_Witness ==
  /\ \A t \in Threads :
       Returned_(t, {"Seek", "SeekToFirst"}) /\ it[t].vrep_ /\ it[t].sorted_
  /\ Len(bucket_) = 2
  /\ compare_(bucket_[1], bucket_[2]) = 0

\* C6: while the Store's sorted_ flag is set its bucket_ is ordered by the
\* comparator, and once the flag is set no step changes the flag or bucket_.
C6_SortedStaysSorted ==
  /\ [](sorted_ => IsSorted(bucket_))
  /\ [][sorted_ => (sorted_' /\ bucket_' = bucket_)]_vars

C6_Witness ==
  /\ sorted_
  /\ inserted # bucket_
  /\ \E t \in Threads : Returned_(t, {"MarkReadOnly"})
  /\ \E t \in Threads : Returned_(t, {"key"}) /\ it[t].vrep_ /\ it[t].cit_ > 0

\* Valid() returns in this step from the first call on thread t's new
\* private-mode iterator.
FirstValidPrivate(t) ==
  /\ it[t].live /\ ~it[t].vrep_ /\ ~it[t].sorted_
  /\ pc[t] = "idle" /\ pc'[t] = "idle"
  /\ it'[t].sorted_
  /\ call'[t].op = "Valid"

\* Valid() returns in this step on thread t's shared-mode iterator, whose
\* cit_ is still the constructor's null: another iterator did the sort.
ValidSharedUnpositioned(t) ==
  /\ it[t].live /\ it[t].vrep_ /\ it[t].cit_ = NullCit
  /\ pc[t] = "Body" /\ pc'[t] = "idle"
  /\ call[t].op = "Valid"

\* C7: Valid() on a new iterator, which no Seek, SeekToFirst or SeekToLast
\* has positioned, returns false: in private mode, and in shared mode when
\* another iterator performed the sort.
C7_NewIteratorNotValid ==
  [][\A t \in Threads :
       (FirstValidPrivate(t) \/ ValidSharedUnpositioned(t)) => ret'[t] = 0]_vars

\* Thread t's MarkReadOnly returns in this step.
MarkReadOnlyStep(t) == pc[t] = "MarkReadOnlyBody" /\ pc'[t] = "idle"

\* C8: immutable_ is false initially, is set by MarkReadOnly and by nothing
\* else, is never reset, and a MarkReadOnly of an immutable Store leaves
\* bucket_, immutable_ and sorted_ as they are.
C8_ImmutableIsOneWay ==
  /\ ~immutable_
  /\ [][/\ immutable_ => immutable_'
        /\ (~immutable_ /\ immutable_') => \E t \in Threads : MarkReadOnlyStep(t)
        /\ \A t \in Threads :
             MarkReadOnlyStep(t) =>
               /\ immutable_'
               /\ immutable_ => UNCHANGED <<bucket_, immutable_, sorted_>>]_vars

C8_Witness ==
  /\ immutable_
  /\ sorted_
  /\ Len(bucket_) >= 2
  /\ \A t \in Threads : pc[t] = "idle" /\ call[t].op = "MarkReadOnly"

\* C9: once immutable_ is set nothing is appended to bucket_, and an Insert
\* that is in its critical section with immutable_ set can only fail its
\* assert: the process aborts with bucket_ as it was.
C9_NoInsertAfterMarkReadOnly ==
  [][/\ immutable_ => (inserted' = inserted /\ SameEntries(bucket_, bucket_'))
     /\ \A t \in Threads :
          (pc[t] = "InsertBody" /\ immutable_
             /\ (pc'[t] # pc[t] \/ aborted' # aborted)) =>
            (aborted' /\ bucket_' = bucket_ /\ pc'[t] = pc[t])]_vars

C9_Witness ==
  /\ aborted
  /\ immutable_
  /\ Len(bucket_) >= 1
  /\ \E t \in Threads : pc[t] = "InsertBody" /\ writer = t

\* C10: once SeekToFirst or SeekToLast has returned, the iterator is valid
\* iff its backing sequence is not empty, and then it stands at the first
\* position on a smallest entry, or at the last position on a largest one;
\* a shared-mode iterator's backing sequence holds the inserted entries.
C10_SeekToFirstLast ==
  \A t \in Threads :
    Returned_(t, {"SeekToFirst", "SeekToLast"}) =>
      LET i == it[t]
          b == Bkt(i)
      IN /\ ValidCit(i) <=> Len(b) > 0
         /\ i.vrep_ => SameEntries(b, inserted)
         /\ Len(b) > 0 =>
              IF call[t].op = "SeekToFirst"
              THEN /\ i.cit_ = 0
                   /\ \A j \in 1..Len(b) : ~Less(b[j], KeyAt(i, b))
              ELSE /\ i.cit_ = Len(b) - 1
                   /\ \A j \in 1..Len(b) : ~Less(KeyAt(i, b), b[j])

C10_Witness ==
  \E t \in Threads :
    /\ Returned_(t, {"SeekToLast"})
    /\ it[t].vrep_
    /\ Len(bucket_) >= 3
    /\ inserted # bucket_
    /\ ValidCit(it[t])

\* Prev() returns in this step on thread t's iterator.
PrevReturns(t) ==
  /\ ~aborted'
  /\ it[t].live
  /\ call'[t].op = "Prev"
  /\ pc'[t] = "idle"
  /\ pc[t] = "Body" \/ (pc[t] = "idle" /\ ~it[t].vrep_)

\* C11: Prev() on an iterator positioned at the first entry leaves the cursor
\* at the past-the-end position, so that the iterator is not valid afterwards
\* (it does not wrap to the last entry); Prev() at any other position i of a
\* valid iterator leaves it at position i - 1, still valid; the backing
\* sequence is as it was.
C11_PrevAtFirstInvalidates ==
  [][\A t \in Threads :
       (PrevReturns(t) /\ it[t].cit_ # NullCit) =>
         /\ (Bkt(it[t]))' = Bkt(it[t])
         /\ IF it[t].cit_ = 0
            THEN /\ it'[t].cit_ = Len(Bkt(it[t]))
                 /\ ~(ValidCit(it[t]))'
            ELSE /\ it'[t].cit_ = it[t].cit_ - 1
                 /\ (ValidCit(it[t]))']_vars

C11_Witness ==
  \E t \in Threads :
    /\ Returned_(t, {"Prev"})
    /\ it[t].vrep_
    /\ Len(bucket_) >= 2
    /\ it[t].cit_ = Len(bucket_)
    /\ ~ValidCit(it[t])

\* C12: ApproximateMemoryUsage() returns the fixed overhead of the instance
\* plus the size of a reference for every entry inserted, whatever Inserts,
\* MarkReadOnly, GetIterator, sorts and iterator calls came before; and the
\* value it computes from the Store never decreases from one state to the
\* next.
C12_MemoryUsage ==
  /\ [](\A t \in Threads :
         (pc[t] = "idle" /\ call[t].op = "ApproximateMemoryUsage") =>
           ret[t] = (SizeofSharedPtr + SizeofBucket)
                      + Len(inserted) * SizeofValueType)
  /\ [][MemoryUsage(bucket_') >= MemoryUsage(bucket_)]_vars

C12_Witness ==
  \E t \in Threads :
    /\ pc[t] = "idle" /\ call[t].op = "ApproximateMemoryUsage"
    /\ Len(inserted) >= 3
    /\ sorted_
    /\ inserted # bucket_
    /\ it[t].live /\ it[t].vrep_ /\ it[t].sorted_
    /\ ret[t] > SizeofSharedPtr + SizeofBucket

\* C13: the iterator GetIterator returns is in shared mode (vrep_ set, its
\* bucket_ the Store's own vector) iff immutable_ was set while GetIterator
\* held the ReadLock, and otherwise in private mode over a copy of bucket_
\* as it was then; so whenever a shared-mode iterator exists, immutable_ is
\* set.
C13_SharedIffImmutable ==
  /\ [](\A t \in Threads : (it[t].live /\ it[t].vrep_) => immutable_)
  /\ [][\A t \in Threads :
          GetIteratorStep(t) =>
            /\ t \in readers
            /\ it'[t].live
            /\ it'[t].vrep_ <=> immutable_
            /\ ~it'[t].vrep_ => it'[t].bucket_ = bucket_
            /\ (Bkt(it[t]))' = bucket_]_vars

C13_Witness ==
  \E t, u \in Threads :
    /\ Returned_(t, {"GetIterator"}) /\ it[t].vrep_
    /\ Returned_(u, {"Seek"}) /\ ~it[u].vrep_
    /\ Len(it[u].bucket_) = 1
    /\ Len(bucket_) = 2

\* Thread t's shared-mode iterator leaves the locked part of DoSort in this
\* step.
SharedSortStep(t) ==
  /\ pc[t] = "DoSortBody" /\ pc'[t] = "Body"
  /\ it[t].live /\ it[t].vrep_
  /\ writer = t

\* Thread t's private-mode iterator sorts its copy in this step.
PrivateSortStep(t) ==
  /\ it[t].live /\ ~it[t].vrep_ /\ ~it[t].sorted_
  /\ it'[t].live /\ ~it'[t].vrep_ /\ it'[t].sorted_

\* C14: the Store's sorted_ flag is false initially, is never reset once set,
\* and is set only by a shared-mode iterator inside the locked part of
\* DoSort while immutable_ is set, by the one sort of the shared bucket_; in
\* every state sorted_ implies immutable_; and a private-mode iterator's
\* sort leaves the Store's flag as it is.
C14_StoreSortedFlag ==
  /\ ~sorted_
  /\ [](sorted_ => immutable_)
  /\ [][/\ sorted_ => sorted_'
        /\ (~sorted_ /\ sorted_') =>
             /\ immutable_
             /\ sortCount = 0 /\ sortCount' = 1
             /\ \E t \in Threads : SharedSortStep(t)
        /\ \A t \in Threads :
             PrivateSortStep(t) => (sorted_' = sorted_ /\ bucket_' = bucket_)]_vars

C14_Witness ==
  /\ sorted_
  /\ immutable_
  /\ inserted # bucket_
  /\ \E t, u \in Threads :
       /\ Returned_(t, OrderOps) /\ it[t].vrep_ /\ it[t].sorted_
       /\ Returned_(u, OrderOps) /\ ~it[u].vrep_ /\ it[u].sorted_
       /\ Len(it[u].bucket_) >= 1

\* The critical sections: under the WriteLock, Insert's assert and push_back,
\* MarkReadOnly's write of immutable_ and the locked part of DoSort; under
\* the ReadLock, the scan of Contains and GetIterator with its copy.
ExclusiveSections == {"InsertBody", "MarkReadOnlyBody", "DoSortBody"}
SharedSections == {"ContainsScan", "GetIteratorBody"}

\* C15: no two threads are at once in Insert's append, MarkReadOnly's write
\* of the flag or the shared in-place sort, and while a thread is in one of
\* these no other thread is in the scan of Contains or in GetIterator's copy
\* of bucket_; the thread in such a section is the one that holds rwlock_.
C15_MutualExclusion ==
  \A t \in Threads :
    /\ pc[t] \in ExclusiveSections <=> writer = t
    /\ pc[t] \in SharedSections <=> t \in readers
    /\ pc[t] \in ExclusiveSections =>
         \A u \in Threads \ {t} :
           pc[u] \notin ExclusiveSections \cup SharedSections

C15_Witness ==
  \E t, u \in Threads :
    /\ pc[t] = "DoSortBody" /\ ~sorted_
    /\ Len(bucket_) >= 1
    /\ pc[u] = "Insert"

\* C16: while a shared-mode iterator is in the part of a call that reads the
\* shared bucket_ without rwlock_ (the comparison of Valid, key, Next, Prev,
\* the search of Seek), the Store's sorted_ flag and the iterator's own are
\* set, and no step of any thread sorts bucket_ or appends to it: an Insert
\* that is in its critical section then can only fail its assert.  The
\* asserts that end DoSort hold wherever they are evaluated, for shared-mode
\* and private-mode iterators, and for every iterator that has returned from
\* a call.
C16_UnlockedReadsAfterSort ==
  /\ [](\A t \in Threads :
         /\ pc[t] = "Body" =>
              /\ it[t].live /\ it[t].vrep_
              /\ writer # t /\ t \notin readers
              /\ sorted_ /\ it[t].sorted_
              /\ \A r \in LocalSort(it[t]) : DoSortAsserts(r[1])
         /\ (it[t].live /\ ~it[t].vrep_) =>
              \A r \in LocalSort(it[t]) : DoSortAsserts(r[1])
         /\ Returned_(t, IterOps) => DoSortAsserts(it[t]))
  /\ [][(\E t \in Threads : pc[t] = "Body") =>
          /\ bucket_' = bucket_
          /\ sortCount' = sortCount
          /\ \A u \in Threads :
               (pc[u] = "InsertBody" /\ pc'[u] # "InsertBody") => aborted']_vars

C16_Witness ==
  \E t, u \in Threads :
    /\ pc[t] = "Body" /\ call[t].op = "Seek"
    /\ pc[u] = "InsertBody"
    /\ Len(bucket_) >= 1

\* C17: whatever the interleaving of the threads' Insert calls, no entry
\* reference is in bucket_ twice: an Insert of a reference that bucket_
\* holds fails assert(!Contains(key)) and appends nothing.
C17_NoDuplicateReference ==
  \A r \in Range(bucket_) : Count(bucket_, r) = 1

\* Thread t makes a call on its private-mode iterator in this step.
PrivateCallStep(t) ==
  /\ it[t].live /\ ~it[t].vrep_
  /\ pc[t] = "idle" /\ pc'[t] = "idle"
  /\ call'[t].op \in IterOps
  /\ <<call'[t], ret'[t], it'[t]>> # <<call[t], ret[t], it[t]>>

\* C18: a call on a private-mode iterator, its sort included, changes
\* nothing of the Store (bucket_, immutable_, sorted_, rwlock_) and nothing
\* of any other iterator or of the sequence that iterator reads; and while
\* the Store's sorted_ flag is not set, bucket_ is the inserted entries in
\* the order of their insertion.
C18_PrivateIteratorLeavesStore ==
  /\ [](~sorted_ => bucket_ = inserted)
  /\ [][\A t \in Threads :
          PrivateCallStep(t) =>
            /\ UNCHANGED <<store, lock>>
            /\ \A u \in Threads \ {t} :
                 /\ it'[u] = it[u]
                 /\ (Bkt(it[u]))' = Bkt(it[u])]_vars

C18_Witness ==
  \E t, u \in Threads :
    /\ t # u
    /\ ~sorted_
    /\ Len(bucket_) = 2
    /\ Returned_(t, {"key"}) /\ ~it[t].vrep_ /\ it[t].sorted_
    /\ Len(it[t].bucket_) = 2 /\ it[t].bucket_ # bucket_
    /\ Returned_(u, {"Seek"}) /\ ~it[u].vrep_ /\ it[u].sorted_
    /\ Len(it[u].bucket_) = 1

\* What SeekToLast followed by key and Prev, repeated while Valid, yields on
\* iterator i: at most fuel entries.
RECURSIVE RevScanFrom(_, _, _)
RevScanFrom(i, b, fuel) ==
  IF fuel = 0 \/ ~ValidCit(i) THEN <<>>
  ELSE <<KeyAt(i, b)>> \o RevScanFrom([i EXCEPT !.cit_ = PrevCit(i, b)], b, fuel - 1)

ReverseScan(i) ==
  LET b == Bkt(i)
  IN RevScanFrom([i EXCEPT !.cit_ = SeekToLastCit(i, b)], b, Len(b) + 1)

Reverse(s) == [k \in 1..Len(s) |-> s[Len(s) + 1 - k]]

\* C19: on an iterator that has sorted, SeekToLast followed by Prev while
\* Valid yields every entry of the backing sequence once, none ordering
\* before a later one, and the sequence it yields is the reverse of the one
\* SeekToFirst followed by Next while Valid yields; a key() that has returned
\* returned the entry of that traversal at the cursor.
C19_ReverseMirrorsForward ==
  \A t \in Threads :
    LET i == it[t]
        b == Bkt(i)
        y == ReverseScan(i)
    IN (i.live /\ i.sorted_) =>
         /\ SameEntries(y, b)
         /\ \A j, k \in 1..Len(y) : j < k => ~Less(y[j], y[k])
         /\ y = Reverse(ForwardScan(i))
         /\ (Returned_(t, {"key"}) /\ ~aborted /\ i.cit_ \in 0..(Len(b) - 1)) =>
              ret[t] = y[Len(b) - i.cit_]

C19_Witness ==
  \E t \in Threads :
    /\ Returned_(t, {"Prev"})
    /\ it[t].sorted_
    /\ Len(Bkt(it[t])) >= 3
    /\ compare_(Bkt(it[t])[1], Bkt(it[t])[2]) = 0
    /\ Bkt(it[t]) # inserted
    /\ ~ValidCit(it[t])

Acquires(t) ==
  \/ writer' = t /\ writer # t
  \/ t \in readers' /\ t \notin readers

====
